---- MODULE Spec2Model ----
(***************************************************************************)
(* Feeder registry of agent_grid_watch/agent.py: the process-wide map      *)
(* _memory, its JSON backing file feeder_memory.json, and the registry     *)
(* operations register_feeder, get_registered_feeders, get_feeder_health   *)
(* and get_feeder_alerts.                                                  *)
(*                                                                         *)
(* A Python value is a record tagged by py; a dict is a function from its  *)
(* keys to its values.  The key f"feeder:{id}" is the pair <<"feeder",id>>,*)
(* "all_feeders" is <<"all_feeders">>, f"alerts:{id}" is <<"alerts",id>>.  *)
(***************************************************************************)
EXTENDS Integers, Sequences, FiniteSets, TLC

\* ------------------------------------------------------------------ bounds
MaxFeeders == 2      \* number of distinct feeder ids callers use
MaxLoads == 2        \* process starts (module imports) in one behaviour
MaxIndexLen == 2     \* length of all_feeders in a file found at startup

Ids == 1..MaxFeeders
Names == {"Feeder One"}
Locations == {"Loc A"}
ProcIds == {"P1", "P2"}

\* ----------------------------------------------------------- Python values
PyNone == [py |-> "None"]
PyInt(i) == [py |-> "int", v |-> i]
PyList(s) == [py |-> "list", items |-> s]
PyDict(d) == [py |-> "dict", d |-> d]
EmptyMap == [k \in {} |-> PyNone]

Configs == {PyNone, PyDict([rate |-> 5])}

\* bool(v) as the `if feeder_data:` test evaluates it
Truthy(v) ==
    CASE v.py = "None" -> FALSE
      [] v.py = "int" -> v.v # 0
      [] v.py = "list" -> Len(v.items) > 0
      [] v.py = "dict" -> DOMAIN v.d # {}

\* dict.get(key): None when the key is absent
DictGet(m, k) == IF k \in DOMAIN m THEN m[k] ELSE PyNone

\* m[k] = v
DictSet(m, k, v) == [x \in DOMAIN m \cup {k} |-> IF x = k THEN v ELSE m[x]]

\* --------------------------------------------------------------- the file
Absent == [kind |-> "absent"]
Malformed == [kind |-> "malformed"]          \* text json.load rejects
Undecodable == [kind |-> "undecodable"]      \* bytes the text layer rejects
JsonFile(obj) == [kind |-> "json", members |-> obj]

\* json.dump of a dict: the object's members
JsonDump(m) == {<<k, m[k]>> : k \in DOMAIN m}

\* json.load of an object: the dict of its members
JsonLoad(obj) == [k \in {mem[1] : mem \in obj} |-> (CHOOSE mem \in obj : mem[1] = k)[2]]

\* _load_memory: the map it leaves in _memory and whether it raised
_load_memory(f) ==
    CASE f.kind = "absent" -> [raised |-> FALSE, memory |-> EmptyMap]
      [] f.kind = "malformed" -> [raised |-> FALSE, memory |-> EmptyMap]
      [] f.kind = "undecodable" -> [raised |-> TRUE, memory |-> EmptyMap]
      [] f.kind = "json" -> [raised |-> FALSE, memory |-> JsonLoad(f.members)]

\* _save_memory: the file it leaves.  open(..., "w") truncates before
\* json.dump writes; every exception is caught and printed.
SaveOutcomes == {"written", "open_failed", "write_failed"}

_save_memory(m, f, outcome) ==
    CASE outcome = "written" -> JsonFile(JsonDump(m))
      [] outcome = "open_failed" -> f
      [] outcome = "write_failed" -> Malformed

\* ------------------------------------------------------------ Feeder codec
Feeder(feeder_id, name, location, configuration) ==
    [feeder_id |-> feeder_id, name |-> name, location |-> location,
     configuration |-> configuration]

to_dict(f) ==
    PyDict([feeder_id |-> f.feeder_id, name |-> f.name,
            location |-> f.location, configuration |-> f.configuration])

NoFeeder == [raised |-> TRUE]

\* from_dict that does not read "configuration"
from_dict_NoConfiguration(data) ==
    IF data.py = "dict" /\ {"feeder_id", "name", "location"} \subseteq DOMAIN data.d
    THEN [raised |-> FALSE,
          feeder |-> Feeder(data.d.feeder_id, data.d.name, data.d.location, PyNone)]
    ELSE NoFeeder

from_dict(data) ==
    IF data.py = "dict" /\ {"feeder_id", "name", "location"} \subseteq DOMAIN data.d
    THEN [raised |-> FALSE,
          feeder |-> Feeder(data.d.feeder_id, data.d.name, data.d.location,
                            IF "configuration" \in DOMAIN data.d
                            THEN data.d.configuration ELSE PyNone)]
    ELSE NoFeeder

_get_feeder_memory_key(feeder_id) == <<"feeder", feeder_id>>
_get_all_feeders_key == <<"all_feeders">>
AlertsKey(feeder_id) == <<"alerts", feeder_id>>

\* ----------------------------------------------------------------- results
Success(report) == [status |-> "success", report |-> report]
Error(msg) == [status |-> "error", error_message |-> msg]
Raised == [status |-> "raised"]          \* an exception left the function
AlreadyExists(id) == <<"Feeder ID '", id, "' already exists.">>
NotFound(id) == <<"Feeder ID '", id, "' not found.">>
NoResult == [op |-> "none"]
NoCall == [feeder_id |-> 0]
Call(op, arg, ret) == [op |-> op, arg |-> arg, ret |-> ret]

\* ------------------------------------------------------- pure registry reads
\* the loop of get_registered_feeders over all_feeder_ids
RECURSIVE CollectFeeders(_, _)
CollectFeeders(ids, m) ==
    IF ids = <<>> THEN [raised |-> FALSE, feeders |-> <<>>]
    ELSE LET feeder_data == DictGet(m, _get_feeder_memory_key(Head(ids)))
             rest == CollectFeeders(Tail(ids), m)
         IN  IF ~Truthy(feeder_data) THEN rest
             ELSE LET f == from_dict(feeder_data)
                  IN  IF f.raised \/ rest.raised
                      THEN [raised |-> TRUE, feeders |-> <<>>]
                      ELSE [raised |-> FALSE,
                            feeders |-> <<to_dict(f.feeder)>> \o rest.feeders]

get_registered_feeders(m) ==
    LET all_feeder_ids == DictGet(m, _get_all_feeders_key)
    IN  IF all_feeder_ids = PyNone THEN Success(<<>>)
        ELSE IF all_feeder_ids.py # "list" THEN Raised
        ELSE LET c == CollectFeeders(all_feeder_ids.items, m)
             IN  IF c.raised THEN Raised ELSE Success(c.feeders)

get_feeder_health(m, feeder_id) ==
    IF _get_feeder_memory_key(feeder_id) \notin DOMAIN m
    THEN Error(NotFound(feeder_id))
    ELSE Success("Operational and healthy.")

\* get_feeder_alerts testing the alerts key where the code tests the feeder key
get_feeder_alerts_ByAlertsKey(m, feeder_id) ==
    IF <<"alerts", feeder_id>> \notin DOMAIN m
    THEN Error(NotFound(feeder_id))
    ELSE Success(m[<<"alerts", feeder_id>>])

get_feeder_alerts(m, feeder_id) ==
    IF _get_feeder_memory_key(feeder_id) \notin DOMAIN m
    THEN Error(NotFound(feeder_id))
    ELSE LET alerts == DictGet(m, AlertsKey(feeder_id))
         IN  Success(IF alerts = PyNone THEN PyList(<<>>) ELSE alerts)

\* ------------------------------------------------------------------- state
VARIABLES
    file,        \* content of feeder_memory.json
    memory,      \* memory[p]: the dict _memory of process p
    pc,          \* pc[p]: where process p is
    pend,        \* pend[p]: the Feeder of the register_feeder call in progress
    result,      \* result[p]: the last call of p and what it returned
    loaded,      \* loaded[p]: the file content p's _load_memory read
    done,        \* done[p]: the Feeders p registered successfully, in order
    gen,         \* number of process starts so far
    saveFailed,  \* some _save_memory call has failed
    lastSaver,   \* the process whose _save_memory last wrote the file
    orphaned     \* ids whose registration a crash cut between its two saves

vars == <<file, memory, pc, pend, result, loaded, done, gen, saveFailed, lastSaver,
          orphaned>>

Running(p) == pc[p] \in {"idle", "save1", "index", "save2"}

\* ----------------------------------------------------------------- actions
\* register_feeder is four steps, cut at its two _save_memory calls: the file
\* is what another process or the next process sees, and a process can be
\* killed between any two of them.  While pc[p] is inside register_feeder no
\* other operation of p is enabled.  The read-only operations are one step.
\* module import: _memory = {} (line 20), then _load_memory() (line 45)
Load(p) ==
    /\ pc[p] = "start"
    /\ gen < MaxLoads
    /\ LET r == _load_memory(file)
       IN  /\ memory' = [memory EXCEPT ![p] = r.memory]
           /\ pc' = [pc EXCEPT ![p] = IF r.raised THEN "import_error" ELSE "idle"]
           /\ result' = [result EXCEPT ![p] =
                  Call("_load_memory", 0, IF r.raised THEN Raised ELSE Success(PyNone))]
    /\ loaded' = [loaded EXCEPT ![p] = file]
    /\ done' = [done EXCEPT ![p] = <<>>]
    /\ gen' = gen + 1
    /\ UNCHANGED <<file, pend, saveFailed, lastSaver, orphaned>>

\* register_feeder that lists the id in all_feeders before its first save
\* and writes no record there
RegisterCheck_IndexFirst(p, configurations) ==
    /\ pc[p] = "idle"
    /\ \E feeder_id \in Ids, feeder_name \in Names,
          feeder_location \in Locations, configuration \in configurations :
          LET feeder == Feeder(feeder_id, feeder_name, feeder_location, configuration)
              got == DictGet(memory[p], <<"all_feeders">>)
              ids == IF got.py = "list" THEN got.items ELSE <<>>
          IN  /\ <<"feeder", feeder_id>> \notin DOMAIN memory[p]
              /\ memory' = [memory EXCEPT ![p] =
                      DictSet(@, <<"all_feeders">>, PyList(Append(ids, feeder_id)))]
              /\ pc' = [pc EXCEPT ![p] = "save1"]
              /\ pend' = [pend EXCEPT ![p] = feeder]
              /\ result' = [result EXCEPT ![p] = NoResult]
    /\ UNCHANGED <<file, loaded, done, gen, saveFailed, lastSaver, orphaned>>

\* register_feeder without the `memory_key in _memory` test
RegisterCheck_NoConflict(p, configurations) ==
    /\ pc[p] = "idle"
    /\ \E feeder_id \in Ids, feeder_name \in Names,
          feeder_location \in Locations, configuration \in configurations :
          LET feeder == Feeder(feeder_id, feeder_name, feeder_location, configuration)
          IN  /\ memory' = [memory EXCEPT ![p] =
                      DictSet(@, <<"feeder", feeder_id>>, to_dict(feeder))]
              /\ pc' = [pc EXCEPT ![p] = "save1"]
              /\ pend' = [pend EXCEPT ![p] = feeder]
              /\ result' = [result EXCEPT ![p] = NoResult]
    /\ UNCHANGED <<file, loaded, done, gen, saveFailed, lastSaver, orphaned>>

\* register_feeder, lines 136-142: the existence check and the record write
RegisterCheck(p, configurations) ==
    /\ pc[p] = "idle"
    /\ \E feeder_id \in Ids, feeder_name \in Names,
          feeder_location \in Locations, configuration \in configurations :
          LET memory_key == _get_feeder_memory_key(feeder_id)
              feeder == Feeder(feeder_id, feeder_name, feeder_location, configuration)
          IN  IF memory_key \in DOMAIN memory[p]
              THEN /\ result' = [result EXCEPT ![p] =
                          Call("register_feeder", feeder_id, Error(AlreadyExists(feeder_id)))]
                   /\ UNCHANGED <<memory, pc, pend>>
              ELSE /\ memory' = [memory EXCEPT ![p] = DictSet(@, memory_key, to_dict(feeder))]
                   /\ pc' = [pc EXCEPT ![p] = "save1"]
                   /\ pend' = [pend EXCEPT ![p] = feeder]
                   /\ result' = [result EXCEPT ![p] = NoResult]
    /\ UNCHANGED <<file, loaded, done, gen, saveFailed, lastSaver, orphaned>>

\* register_feeder, line 143: the first save
RegisterSave1(p) ==
    /\ pc[p] = "save1"
    /\ \E outcome \in SaveOutcomes :
          /\ file' = _save_memory(memory[p], file, outcome)
          /\ saveFailed' = (saveFailed \/ outcome # "written")
          /\ lastSaver' = IF outcome = "written" THEN p ELSE lastSaver
    /\ pc' = [pc EXCEPT ![p] = "index"]
    /\ UNCHANGED <<memory, pend, result, loaded, done, gen, orphaned>>

\* register_feeder storing [feeder_id] where the code appends to the list
RegisterIndex_Replace(p) ==
    /\ pc[p] = "index"
    /\ memory' = [memory EXCEPT ![p] =
           DictSet(@, <<"all_feeders">>, PyList(<<pend[p].feeder_id>>))]
    /\ pc' = [pc EXCEPT ![p] = "save2"]
    /\ UNCHANGED <<file, pend, result, loaded, done, gen, saveFailed, lastSaver,
                   orphaned>>

\* register_feeder, lines 146-151: append the id to all_feeders
RegisterIndex(p) ==
    /\ pc[p] = "index"
    /\ LET all_feeders_key == _get_all_feeders_key
           got == DictGet(memory[p], all_feeders_key)
           all_feeder_ids == IF got = PyNone THEN PyList(<<>>) ELSE got
       IN  IF all_feeder_ids.py = "list"
           THEN /\ memory' = [memory EXCEPT ![p] = DictSet(@, all_feeders_key,
                        PyList(Append(all_feeder_ids.items, pend[p].feeder_id)))]
                /\ pc' = [pc EXCEPT ![p] = "save2"]
                /\ UNCHANGED <<pend, result>>
           ELSE \* .append on a value that is not a list raises
                /\ pc' = [pc EXCEPT ![p] = "idle"]
                /\ result' = [result EXCEPT ![p] =
                       Call("register_feeder", pend[p].feeder_id, Raised)]
                /\ pend' = [pend EXCEPT ![p] = NoCall]
                /\ UNCHANGED memory
    /\ UNCHANGED <<file, loaded, done, gen, saveFailed, lastSaver, orphaned>>

\* register_feeder whose second save lets a failure reach the caller
RegisterSave2_Surfacing(p) ==
    /\ pc[p] = "save2"
    /\ \E outcome \in SaveOutcomes :
          /\ file' = _save_memory(memory[p], file, outcome)
          /\ saveFailed' = (saveFailed \/ outcome # "written")
          /\ lastSaver' = IF outcome = "written" THEN p ELSE lastSaver
          /\ result' = [result EXCEPT ![p] =
                 Call("register_feeder", pend[p].feeder_id,
                      IF outcome = "written" THEN Success(to_dict(pend[p]))
                      ELSE Error(<<"Error saving memory to file">>))]
    /\ done' = [done EXCEPT ![p] = Append(@, pend[p])]
    /\ pc' = [pc EXCEPT ![p] = "idle"]
    /\ pend' = [pend EXCEPT ![p] = NoCall]
    /\ UNCHANGED <<memory, loaded, gen, orphaned>>

\* register_feeder that returns without its second save
RegisterSave2_NoSave(p) ==
    /\ pc[p] = "save2"
    /\ result' = [result EXCEPT ![p] =
           Call("register_feeder", pend[p].feeder_id, Success(to_dict(pend[p])))]
    /\ done' = [done EXCEPT ![p] = Append(@, pend[p])]
    /\ pc' = [pc EXCEPT ![p] = "idle"]
    /\ pend' = [pend EXCEPT ![p] = NoCall]
    /\ UNCHANGED <<file, memory, loaded, gen, saveFailed, lastSaver, orphaned>>

\* register_feeder, lines 152-153: the second save and the return
RegisterSave2(p) ==
    /\ pc[p] = "save2"
    /\ \E outcome \in SaveOutcomes :
          /\ file' = _save_memory(memory[p], file, outcome)
          /\ saveFailed' = (saveFailed \/ outcome # "written")
          /\ lastSaver' = IF outcome = "written" THEN p ELSE lastSaver
    /\ result' = [result EXCEPT ![p] =
           Call("register_feeder", pend[p].feeder_id, Success(to_dict(pend[p])))]
    /\ done' = [done EXCEPT ![p] = Append(@, pend[p])]
    /\ pc' = [pc EXCEPT ![p] = "idle"]
    /\ pend' = [pend EXCEPT ![p] = NoCall]
    /\ UNCHANGED <<memory, loaded, gen, orphaned>>

GetRegisteredFeeders(p) ==
    /\ pc[p] = "idle"
    /\ result' = [result EXCEPT ![p] =
           Call("get_registered_feeders", 0, get_registered_feeders(memory[p]))]
    /\ UNCHANGED <<file, memory, pc, pend, loaded, done, gen, saveFailed, lastSaver,
                   orphaned>>

GetFeederHealth(p) ==
    /\ pc[p] = "idle"
    /\ \E feeder_id \in Ids :
          result' = [result EXCEPT ![p] =
              Call("get_feeder_health", feeder_id, get_feeder_health(memory[p], feeder_id))]
    /\ UNCHANGED <<file, memory, pc, pend, loaded, done, gen, saveFailed, lastSaver,
                   orphaned>>

GetFeederAlerts(p) ==
    /\ pc[p] = "idle"
    /\ \E feeder_id \in Ids :
          result' = [result EXCEPT ![p] =
              Call("get_feeder_alerts", feeder_id, get_feeder_alerts(memory[p], feeder_id))]
    /\ UNCHANGED <<file, memory, pc, pend, loaded, done, gen, saveFailed, lastSaver,
                   orphaned>>

\* the process stops (is killed) between two statements; its _memory is lost
Crash(p) ==
    /\ Running(p)
    /\ gen < MaxLoads
    /\ orphaned' = IF pc[p] \in {"index", "save2"} THEN {pend[p].feeder_id} ELSE {}
    /\ pc' = [pc EXCEPT ![p] = "start"]
    /\ memory' = [memory EXCEPT ![p] = EmptyMap]
    /\ pend' = [pend EXCEPT ![p] = NoCall]
    /\ result' = [result EXCEPT ![p] = NoResult]
    /\ done' = [done EXCEPT ![p] = <<>>]
    /\ UNCHANGED <<file, loaded, gen, saveFailed, lastSaver>>

\* ---------------------------------------------------------- specifications
InitProcs(started) ==
    /\ memory = [p \in ProcIds |-> EmptyMap]
    /\ pc = [p \in ProcIds |-> IF p \in started THEN "start" ELSE "off"]
    /\ pend = [p \in ProcIds |-> NoCall]
    /\ result = [p \in ProcIds |-> NoResult]
    /\ loaded = [p \in ProcIds |-> [kind |-> "none"]]
    /\ done = [p \in ProcIds |-> <<>>]
    /\ gen = 0
    /\ saveFailed = FALSE
    /\ lastSaver = "none"
    /\ orphaned = {}

\* one process at a time, no backing file at the first start
Init ==
    /\ file = Absent
    /\ InitProcs({"P1"})

Next ==
    \/ \E p \in ProcIds : Load(p)
    \/ \E p \in ProcIds : RegisterCheck(p, Configs)
    \/ \E p \in ProcIds : RegisterSave1(p)
    \/ \E p \in ProcIds : RegisterIndex(p)
    \/ \E p \in ProcIds : RegisterSave2(p)
    \/ \E p \in ProcIds : GetRegisteredFeeders(p)
    \/ \E p \in ProcIds : GetFeederHealth(p)
    \/ \E p \in ProcIds : GetFeederAlerts(p)
    \/ \E p \in ProcIds : Crash(p)

Spec == Init /\ [][Next]_vars

\* a file of any content found at the first start.  NoEntry marks a key the
\* file does not hold.
NoEntry == [py |-> "absent"]
StartupFeederValues(id) ==
    {NoEntry, PyDict(EmptyMap), PyDict([feeder_id |-> id]),
     to_dict(Feeder(id, "Feeder One", "Loc A", PyNone))}
StartupIndexValues ==
    {NoEntry, PyInt(0)}
        \cup {PyList(s) : s \in UNION {[1..n -> Ids] : n \in 0..MaxIndexLen}}
StartupAlertValues == {NoEntry, PyList(<<PyDict([message |-> "overload"])>>)}

StartupMap(feeders, index, alerts) ==
    LET keys == {_get_feeder_memory_key(i) : i \in {j \in Ids : feeders[j] # NoEntry}}
                \cup (IF index # NoEntry THEN {_get_all_feeders_key} ELSE {})
                \cup (IF alerts # NoEntry THEN {AlertsKey(i) : i \in Ids} ELSE {})
    IN  [k \in keys |-> IF k[1] = "feeder" THEN feeders[k[2]]
                        ELSE IF k[1] = "alerts" THEN alerts ELSE index]

StartupFiles ==
    {Absent, Malformed, Undecodable}
        \cup {JsonFile(JsonDump(StartupMap(fs, ix, al))) :
                fs \in {f \in [Ids -> UNION {StartupFeederValues(i) : i \in Ids}] :
                           \A i \in Ids : f[i] \in StartupFeederValues(i)},
                ix \in StartupIndexValues, al \in StartupAlertValues}

InitStartup ==
    /\ file \in StartupFiles
    /\ InitProcs({"P1"})

\* the first process on a file of any content; it is not killed
NextStartup ==
    \/ \E p \in ProcIds : Load(p)
    \/ \E p \in ProcIds : RegisterCheck(p, Configs \ {PyNone})
    \/ \E p \in ProcIds : RegisterSave1(p)
    \/ \E p \in ProcIds : RegisterIndex(p)
    \/ \E p \in ProcIds : RegisterSave2(p)
    \/ \E p \in ProcIds : GetRegisteredFeeders(p)
    \/ \E p \in ProcIds : GetFeederHealth(p)
    \/ \E p \in ProcIds : GetFeederAlerts(p)

SpecStartup == InitStartup /\ [][NextStartup]_vars

\* two processes started on the same file, neither is killed
InitConc ==
    /\ file = Absent
    /\ InitProcs({"P1", "P2"})

NextConc ==
    \/ \E p \in ProcIds : Load(p)
    \/ \E p \in ProcIds : RegisterCheck(p, {PyNone})
    \/ \E p \in ProcIds : RegisterSave1(p)
    \/ \E p \in ProcIds : RegisterIndex(p)
    \/ \E p \in ProcIds : RegisterSave2(p)

SpecConc == InitConc /\ [][NextConc]_vars

\* ------------------------------------------------- vocabulary of the claims
HasRecord(m, id) == _get_feeder_memory_key(id) \in DOMAIN m

\* the ids all_feeders lists, in order (none when the key is absent)
IndexOf(m) ==
    LET v == DictGet(m, _get_all_feeders_key)
    IN  IF v.py = "list" THEN v.items ELSE <<>>

IndexIds(m) == {IndexOf(m)[i] : i \in 1..Len(IndexOf(m))}
RecordIds(m) == {id \in Ids : HasRecord(m, id)}
FileMap == IF file.kind = "json" THEN JsonLoad(file.members) ELSE EmptyMap

\* the step is a call register_feeder(id, ...) by p
RegisterCalled(p, id) ==
    /\ pc[p] = "idle"
    /\ \/ pc'[p] = "save1" /\ pend'[p].feeder_id = id
       \/ /\ result'[p] # result[p]
          /\ result'[p].op = "register_feeder"
          /\ result'[p].arg = id

\* the step is a call of one of the operations ops by p
Called(p, ops) ==
    /\ pc[p] = "idle"
    /\ result'[p] # result[p]
    /\ result'[p].op \in ops

\* C1: register_feeder(id, ...) on a store that already holds feeder:<id>
\* returns the "already exists" error, saves nothing, and leaves the
\* in-memory map and the backing file as they were.
C1_DuplicateRejected ==
    [][\A p \in ProcIds, id \in Ids :
          (HasRecord(memory[p], id) /\ RegisterCalled(p, id))
              => /\ result'[p] = Call("register_feeder", id, Error(AlreadyExists(id)))
                 /\ pc'[p] = "idle"
                 /\ memory' = memory
                 /\ file' = file]_vars

\* a rejected duplicate while the file is behind the map: a save would show
C1_Witness ==
    \E p \in ProcIds :
        /\ result[p].op = "register_feeder"
        /\ result[p].ret.status = "error"
        /\ HasRecord(memory[p], result[p].arg)
        /\ file # JsonFile(JsonDump(memory[p]))

\* C4: get_feeder_health(id) and get_feeder_alerts(id) on a store without
\* feeder:<id> return the "not found" error whatever else the store holds,
\* and change neither the in-memory map nor the backing file.
C4_NotFound ==
    [][\A p \in ProcIds :
          (/\ Called(p, {"get_feeder_health", "get_feeder_alerts"})
           /\ ~HasRecord(memory[p], result'[p].arg))
              => /\ result'[p].ret = Error(NotFound(result'[p].arg))
                 /\ memory' = memory
                 /\ file' = file]_vars

\* not found although the id is listed in all_feeders and has alerts
C4_Witness ==
    \E p \in ProcIds :
        /\ result[p].op = "get_feeder_alerts"
        /\ result[p].ret.status = "error"
        /\ result[p].arg \in IndexIds(memory[p])
        /\ AlertsKey(result[p].arg) \in DOMAIN memory[p]

\* the record register_feeder writes and reports for the arguments f
RecordOf(f) ==
    PyDict([feeder_id |-> f.feeder_id, name |-> f.name, location |-> f.location,
            configuration |-> f.configuration])

RegisteredOk(p) ==
    /\ result[p].op = "register_feeder"
    /\ result[p].ret.status = "success"

\* C2: in the first process on an empty store, get_registered_feeders
\* returns success with one record per successful registration, in
\* registration order, each holding the arguments of its call; that record
\* is the report its register_feeder call returned.
C2_RoundTrip ==
    \A p \in ProcIds :
        (gen = 1 /\ loaded[p] = Absent /\ pc[p] = "idle")
            => /\ result[p].op = "get_registered_feeders"
                  => /\ result[p].ret.status = "success"
                     /\ Len(result[p].ret.report) = Len(done[p])
                     /\ \A i \in 1..Len(done[p]) :
                           result[p].ret.report[i] = RecordOf(done[p][i])
               /\ RegisteredOk(p)
                  => result[p].ret.report = RecordOf(done[p][Len(done[p])])

\* a listing of two registrations, one of them with a configuration
C2_Witness ==
    \E p \in ProcIds :
        /\ gen = 1
        /\ pc[p] = "idle"
        /\ result[p].op = "get_registered_feeders"
        /\ Len(done[p]) = 2
        /\ \E i \in 1..2 : done[p][i].configuration # PyNone

\* C7: in the first process on an empty store, between operations,
\* all_feeders holds no id twice and holds exactly the ids that have a
\* feeder:<id> entry.
C7_IndexConsistent ==
    \A p \in ProcIds :
        (gen = 1 /\ loaded[p] = Absent /\ pc[p] = "idle")
            => /\ \A i, j \in 1..Len(IndexOf(memory[p])) :
                     IndexOf(memory[p])[i] = IndexOf(memory[p])[j] => i = j
               /\ IndexIds(memory[p]) = RecordIds(memory[p])

\* two feeders registered and a rejected duplicate
C7_Witness ==
    \E p \in ProcIds :
        /\ gen = 1
        /\ pc[p] = "idle"
        /\ Len(IndexOf(memory[p])) = 2
        /\ result[p].op = "register_feeder"
        /\ result[p].ret.status = "error"

\* the file lacks part or all of the registration of id
FileLacks(id) ==
    \/ file.kind = "absent"
    \/ /\ file.kind = "json"
       /\ ~HasRecord(FileMap, id) \/ id \notin IndexIds(FileMap)

\* a register_feeder call that found no feeder:<id> entry has returned
RegisterReturned(p) ==
    /\ result[p].op = "register_feeder"
    /\ result[p].ret # Error(AlreadyExists(result[p].arg))

\* register_feeder(id, ...) returned success and left the record and the
\* index entry in the in-memory map
RegisteredInMemory(p) ==
    /\ result[p].ret = Success(RecordOf(done[p][Len(done[p])]))
    /\ DictGet(memory[p], _get_feeder_memory_key(result[p].arg)) = result[p].ret.report
    /\ Len(IndexOf(memory[p])) > 0
    /\ IndexOf(memory[p])[Len(IndexOf(memory[p]))] = result[p].arg

\* C6 as stated: whichever saves fail, a registration returns the same
\* success and leaves the same in-memory map, and the file afterwards either
\* equals the in-memory map or lacks part or all of this registration.
C6_FailedSaveKeepsFile ==
    \A p \in ProcIds :
        RegisterReturned(p)
            => /\ RegisteredInMemory(p)
               /\ \/ file = JsonFile(JsonDump(memory[p]))
                  \/ FileLacks(result[p].arg)

\* C6 amended: a failed save leaves the file unchanged or truncated, so the
\* file afterwards equals the in-memory map, lacks part or all of this
\* registration, or is malformed; the result and the map are the same in
\* all these cases.
C6_SaveFailureSilent ==
    \A p \in ProcIds :
        RegisterReturned(p)
            => /\ RegisteredInMemory(p)
               /\ \/ file = JsonFile(JsonDump(memory[p]))
                  \/ FileLacks(result[p].arg)
                  \/ file.kind = "malformed"

\* a successful return after a failed save, the file behind the map
C6_Witness ==
    \E p \in ProcIds :
        /\ RegisteredOk(p)
        /\ saveFailed
        /\ file # JsonFile(JsonDump(memory[p]))

\* ids whose registration is between its two saves
InWindow == {pend[p].feeder_id : p \in {q \in ProcIds : pc[q] \in {"index", "save2"}}}

\* C8: with every save an atomic replacement of the file, in the first
\* process on an empty store, including after it is killed, every id in the
\* file's all_feeders has a feeder:<id> entry in the file, and a feeder:<id>
\* entry of the file is missing from the file's all_feeders only between the
\* two saves of the registration of id.
C8_WriteOrdering ==
    (~saveFailed /\ gen <= 1)
        => /\ IndexIds(FileMap) \subseteq RecordIds(FileMap)
           /\ (RecordIds(FileMap) \ IndexIds(FileMap)) \subseteq (InWindow \cup orphaned)

\* the first process killed between the two saves: record saved, not indexed
C8_Witness ==
    /\ ~saveFailed
    /\ gen = 1
    /\ pc["P1"] = "start"
    /\ \E id \in orphaned : HasRecord(FileMap, id) /\ id \notin IndexIds(FileMap)

\* what the claim says of an id in a process started after the cut
OrphanStays(p, id) ==
    /\ HasRecord(memory[p], id)
    /\ id \notin IndexIds(memory[p])
    /\ (result[p].op = "register_feeder" /\ result[p].arg = id)
          => result[p].ret = Error(AlreadyExists(id))
    /\ result[p].op = "get_registered_feeders"
          => /\ result[p].ret.status = "success"
             /\ \A i \in 1..Len(result[p].ret.report) :
                   result[p].ret.report[i].d.feeder_id # id
    /\ (result[p].op \in {"get_feeder_health", "get_feeder_alerts"} /\ result[p].arg = id)
          => result[p].ret.status = "success"

\* C10 as stated: after a process is killed between the two saves of
\* register_feeder(id, ...), in every state of the next process id is
\* rejected as existing, never listed, found by health and alerts, and never
\* added to all_feeders.
C10_OrphanAfterAnyCut ==
    \A p \in ProcIds, id \in orphaned :
        Running(p) => OrphanStays(p, id)

\* C10 amended: the same, when the first save had written the file, so that
\* the file the next process loads holds feeder:<id>.
C10_OrphanPermanent ==
    \A p \in ProcIds, id \in orphaned :
        (Running(p) /\ HasRecord(_load_memory(loaded[p]).memory, id))
            => OrphanStays(p, id)

\* the next process rejects the orphaned id
C10_Witness ==
    \E p \in ProcIds, id \in orphaned :
        /\ pc[p] = "idle"
        /\ gen = 2
        /\ HasRecord(_load_memory(loaded[p]).memory, id)
        /\ result[p] = Call("register_feeder", id, Error(AlreadyExists(id)))

\* the records, in index order, of the listed ids that have a feeder:<id> entry
RECURSIVE RecordsOf(_, _)
RecordsOf(ids, m) ==
    IF ids = <<>> THEN <<>>
    ELSE (IF HasRecord(m, Head(ids))
          THEN <<m[_get_feeder_memory_key(Head(ids))]>> ELSE <<>>)
         \o RecordsOf(Tail(ids), m)

\* C3: on every store content, loaded from the file or produced by the
\* registry operations, get_registered_feeders returns success; its report
\* is empty when all_feeders is absent or empty and otherwise holds the
\* records, in index order, of exactly the listed ids that have a
\* feeder:<id> entry.
C3_ListingAlwaysSucceeds ==
    \A p \in ProcIds :
        result[p].op = "get_registered_feeders"
            => /\ result[p].ret.status = "success"
               /\ result[p].ret.report = RecordsOf(IndexOf(memory[p]), memory[p])

\* C5: _load_memory never raises; an absent or corrupted file leaves the
\* in-memory map empty, and a file holding a JSON object leaves the map
\* equal to it.
C5_LoadNeverFails ==
    \A p \in ProcIds :
        result[p].op = "_load_memory"
            => /\ result[p].ret.status = "success"
               /\ pc[p] = "idle"
               /\ loaded[p].kind \in {"absent", "malformed", "undecodable"}
                     => memory[p] = EmptyMap
               /\ loaded[p].kind = "json" => JsonDump(memory[p]) = loaded[p].members

DoneIds(p) == {done[p][i].feeder_id : i \in 1..Len(done[p])}

\* two processes loaded the same file content and each has since registered
\* feeder ids the other has not, every save having written the file
BothRegistered ==
    /\ \A p \in ProcIds : pc[p] = "idle" /\ DoneIds(p) # {}
    /\ loaded["P1"] = loaded["P2"]
    /\ DoneIds("P1") \cap DoneIds("P2") = {}
    /\ ~saveFailed

\* C9: when two processes load the same file and each registers a different
\* id with success, the file ends up equal to the in-memory map of the
\* process that saved last, and holds neither the record nor the index entry
\* of the other process's registration.
C9_LostUpdate ==
    BothRegistered
        => /\ lastSaver \in ProcIds
           /\ file = JsonFile(JsonDump(memory[lastSaver]))
           /\ \A q \in ProcIds \ {lastSaver} :
                 \A id \in DoneIds(q) :
                    /\ ~HasRecord(FileMap, id)
                    /\ id \notin IndexIds(FileMap)
           /\ \A q \in ProcIds : DoneIds(q) \subseteq RecordIds(memory[q])

\* both registrations returned success, the file holds only the later one
C9_Witness ==
    /\ BothRegistered
    /\ \A p \in ProcIds : RegisteredOk(p)
    /\ RecordIds(FileMap) = DoneIds(lastSaver)

====
